---- MODULE Spec2Model ----
(***************************************************************************)
(* VitalStream: a browser-resident simulated patient monitor.              *)
(* The model follows src/app.js (data structures, rules, generator) and    *)
(* src/unnamed/part_000 (application state, handlers, tick).               *)
(*                                                                         *)
(* Units.  Heart rate and SpO2 are whole units; temperature is in tenths   *)
(* of a degree Fahrenheit (100.4 F is 1004), so that every threshold of    *)
(* the program is an integer.  Time is in milliseconds.                    *)
(***************************************************************************)
EXTENDS Integers, Sequences, FiniteSets, TLC

(***************************************************************************)
(* JavaScript values that are not numbers of the model.                    *)
(***************************************************************************)
\* null, as returned by RingBuffer.last() and held by `timer`
Null == -1
\* a hole of `new Array(capacity)`: reading it yields undefined
Undefined == -2
\* NaN, as produced by parseInt / parseFloat on a non-numeric input
NaN == -999

\* JavaScript's a >= b and a <= b on numbers: false when either side is NaN
Geq(a, b) == a # NaN /\ b # NaN /\ a >= b
Leq(a, b) == a # NaN /\ b # NaN /\ a <= b

Min(a, b) == IF a <= b THEN a ELSE b
Max(a, b) == IF a >= b THEN a ELSE b

\* clamp(x, lo, hi)
clamp(x, lo, hi) == Max(lo, Min(hi, x))

(***************************************************************************)
(* Bounds of the model.                                                    *)
(***************************************************************************)
\* largest small capacity a stand-alone RingBuffer is constructed with
MaxCapacity == 3
\* number of handler invocations and clock moves in a run
MaxSteps == 4

(***************************************************************************)
(* Program constants.                                                      *)
(***************************************************************************)
\* new RingBuffer(60)
CAPACITY == 60
\* setInterval(tick, 1000)
INTERVAL_MS == 1000
\* p.eventActiveUntil = nowMs() + 25_000
EVENT_MS == 25000
\* const ALERT_WINDOW_MS = 2 * 60 * 1000
ALERT_WINDOW_MS == 2 * 60 * 1000
\* const RUN_WINDOW = 20 * 60
RUN_WINDOW == 20 * 60
\* toSortedArray(limit = 12)
LIMIT == 12

VARIABLES
    \* ---- a stand-alone RingBuffer and the values pushed onto it so far
    ring, pushed,
    \* ---- one call of evaluateRules: its inputs and its result
    evRules, evSample, evOut,
    \* ---- one PriorityQueue on its own: the alerts pushed, its heap, and the
    \*      list renderAlerts obtained from toSortedArray(12)
    pqItems, pqHeap, pqTop,
    \* ---- the application
    now,                \* Date.now()
    timer,              \* let timer = null
    intervals,          \* the browser's active setInterval timers: handle -> due time
    objs,               \* the rule objects alive: reference -> the six thresholds
    rules,              \* let rules = loadRules(): a reference into objs
    undo,               \* const undo = new Stack(): its arr, of references into objs
    patients,           \* the PatientState of each patient id
    selectedPatientId,  \* let selectedPatientId = "P1"
    alertHistory,       \* let alertHistory = []
    alertPQ,            \* let alertPQ = new PriorityQueue(): its heap
    metrics,            \* let metrics = { total, tp, fp }
    runLog,             \* let runLog = []
    storage,            \* localStorage["vitalstream_rules"]
    toastMsg,           \* the text last passed to toast()
    \* ---- history of the run
    lastOp,             \* the handler invoked last
    nTicks,             \* number of tick() executions so far
    tickTime,           \* the timestamp t of the last tick
    nSteps,             \* number of handler invocations and clock moves so far
    before              \* the rule sets that were active before each edit not yet undone

ringVars == <<ring, pushed>>
evalVars == <<evRules, evSample, evOut>>
pqVars == <<pqItems, pqHeap, pqTop>>
appVars == <<now, timer, intervals, objs, rules, undo, patients, selectedPatientId,
             alertHistory, alertPQ, metrics, runLog, storage, toastMsg,
             lastOp, nSteps, nTicks, tickTime, before>>
vars == <<ringVars, evalVars, pqVars, appVars>>

(***************************************************************************)
(* DS: RingBuffer (Queue)                                                  *)
(***************************************************************************)
\* An array with holes, as `new Array(capacity)` creates it: a function from
\* the indices written so far to their values.
arraySet(arr, idx, x) == [k \in DOMAIN arr \cup {idx} |-> IF k = idx THEN x ELSE arr[k]]
arrayGet(arr, idx) == IF idx \in DOMAIN arr THEN arr[idx] ELSE Undefined

\* constructor(capacity)
RingBuffer(capacity) ==
    [capacity |-> capacity,
     arr |-> <<>>,
     head |-> 0,
     size |-> 0]

\* a push that, once full, overwrites the oldest but leaves head where it was
RingBuffer_push_NoAdvance(rb, x) ==
    LET idx == (rb.head + rb.size) % rb.capacity
    IN  [rb EXCEPT !.arr = arraySet(rb.arr, idx, x),
                   !.size = IF rb.size < rb.capacity THEN rb.size + 1 ELSE rb.size]

\* push(x)
RingBuffer_push(rb, x) ==
    LET idx == (rb.head + rb.size) % rb.capacity
    IN  [rb EXCEPT !.arr = arraySet(rb.arr, idx, x),
                   !.size = IF rb.size < rb.capacity THEN rb.size + 1 ELSE rb.size,
                   !.head = IF rb.size < rb.capacity THEN rb.head
                            ELSE (rb.head + 1) % rb.capacity]

\* toArray()
RingBuffer_toArray(rb) ==
    [i \in 1..rb.size |-> arrayGet(rb.arr, (rb.head + (i - 1)) % rb.capacity)]

\* a last() that reads the slot after the newest one
RingBuffer_last_OffByOne(rb) ==
    IF rb.size = 0 THEN Null
    ELSE arrayGet(rb.arr, (rb.head + rb.size) % rb.capacity)

\* last()
RingBuffer_last(rb) ==
    IF rb.size = 0 THEN Null
    ELSE arrayGet(rb.arr, (rb.head + rb.size - 1) % rb.capacity)

(***************************************************************************)
(* DS: Stack (Undo).  The stack is its arr; the top is the last element.   *)
(***************************************************************************)
Stack_new == <<>>
Stack_push(arr, x) == Append(arr, x)
Stack_isEmpty(arr) == Len(arr) = 0
\* pop(): the value returned (null on an empty stack) and the arr left
Stack_pop(arr) ==
    IF Len(arr) # 0
    THEN [value |-> arr[Len(arr)], isNull |-> FALSE, arr |-> SubSeq(arr, 1, Len(arr) - 1)]
    ELSE [value |-> Null, isNull |-> TRUE, arr |-> arr]

(***************************************************************************)
(* Rules                                                                   *)
(***************************************************************************)
RuleKeys == {"hrHigh", "hrCritical", "spo2Low", "spo2Critical", "tempHigh", "tempCritical"}

\* defaultRules()
defaultRules ==
    [hrHigh |-> 120, hrCritical |-> 150,
     spo2Low |-> 92, spo2Critical |-> 86,
     tempHigh |-> 1004, tempCritical |-> 1020]

(***************************************************************************)
(* Alerts (rules evaluation).  msg holds the parts the template string is  *)
(* built from: the label, the measured value and the threshold crossed.    *)
(***************************************************************************)
Alert(priority, type, text, value, threshold, patientId) ==
    [priority |-> priority, type |-> type,
     msg |-> [text |-> text, value |-> value, threshold |-> threshold],
     patientId |-> patientId]

\* the HR block: if (hr >= hrCritical) ... else if (hr >= hrHigh) ...
evaluateHR(r, sample, patientId) ==
    IF Geq(sample.hr, r.hrCritical)
    THEN <<Alert(1, "HR", "Critical HR", sample.hr, r.hrCritical, patientId)>>
    ELSE IF Geq(sample.hr, r.hrHigh)
         THEN <<Alert(2, "HR", "High HR", sample.hr, r.hrHigh, patientId)>>
         ELSE <<>>

\* the SpO2 block: if (spo2 <= spo2Critical) ... else if (spo2 <= spo2Low) ...
evaluateSpO2(r, sample, patientId) ==
    IF Leq(sample.spo2, r.spo2Critical)
    THEN <<Alert(1, "SpO2", "Critical SpO2", sample.spo2, r.spo2Critical, patientId)>>
    ELSE IF Leq(sample.spo2, r.spo2Low)
         THEN <<Alert(2, "SpO2", "Low SpO2", sample.spo2, r.spo2Low, patientId)>>
         ELSE <<>>

\* the Temp block: if (temp >= tempCritical) ... else if (temp >= tempHigh) ...
evaluateTemp(r, sample, patientId) ==
    IF Geq(sample.temp, r.tempCritical)
    THEN <<Alert(1, "Temp", "Critical Fever", sample.temp, r.tempCritical, patientId)>>
    ELSE IF Geq(sample.temp, r.tempHigh)
         THEN <<Alert(2, "Temp", "Fever", sample.temp, r.tempHigh, patientId)>>
         ELSE <<>>

\* an evaluation whose HR block tests the two thresholds independently (no else)
evaluateRules_NoElse(r, sample, patientId) ==
    (IF Geq(sample.hr, r.hrCritical)
     THEN <<Alert(1, "HR", "Critical HR", sample.hr, r.hrCritical, patientId)>>
     ELSE <<>>)
    \o (IF Geq(sample.hr, r.hrHigh)
        THEN <<Alert(2, "HR", "High HR", sample.hr, r.hrHigh, patientId)>>
        ELSE <<>>)
    \o evaluateSpO2(r, sample, patientId)
    \o evaluateTemp(r, sample, patientId)

\* an evaluation whose high-HR test is strict (hr > hrHigh)
evaluateRules_Strict(r, sample, patientId) ==
    (IF Geq(sample.hr, r.hrCritical)
     THEN <<Alert(1, "HR", "Critical HR", sample.hr, r.hrCritical, patientId)>>
     ELSE IF Geq(sample.hr, r.hrHigh) /\ sample.hr # r.hrHigh
          THEN <<Alert(2, "HR", "High HR", sample.hr, r.hrHigh, patientId)>>
          ELSE <<>>)
    \o evaluateSpO2(r, sample, patientId)
    \o evaluateTemp(r, sample, patientId)

\* evaluateRules(rules, sample, patientId)
evaluateRules(r, sample, patientId) ==
    evaluateHR(r, sample, patientId)
    \o evaluateSpO2(r, sample, patientId)
    \o evaluateTemp(r, sample, patientId)

(***************************************************************************)
(* DS: PriorityQueue (Binary Heap).  The queue is its heap array; index i  *)
(* of the JavaScript array is element i + 1 of the sequence.               *)
(***************************************************************************)
\* the default compare: a.priority - b.priority || a.ts - b.ts
compare(a, b) ==
    IF a.priority - b.priority # 0 THEN a.priority - b.priority ELSE a.ts - b.ts

swap(heap, i, j) == [heap EXCEPT ![i + 1] = heap[j + 1], ![j + 1] = heap[i + 1]]

RECURSIVE siftUp(_, _)
\* _siftUp(i)
siftUp(heap, i) ==
    IF i > 0
    THEN LET p == (i - 1) \div 2
         IN  IF compare(heap[i + 1], heap[p + 1]) < 0
             THEN siftUp(swap(heap, i, p), p)
             ELSE heap
    ELSE heap

RECURSIVE siftDown(_, _)
\* _siftDown(i)
siftDown(heap, i) ==
    LET n == Len(heap)
        l == 2 * i + 1
        r == 2 * i + 2
        best1 == IF l < n /\ compare(heap[l + 1], heap[i + 1]) < 0 THEN l ELSE i
        best == IF r < n /\ compare(heap[r + 1], heap[best1 + 1]) < 0 THEN r ELSE best1
    IN  IF best # i THEN siftDown(swap(heap, i, best), best) ELSE heap

\* push(item)
PriorityQueue_push(heap, item) == siftUp(Append(heap, item), Len(heap))

\* pop() that moves the last item to the root and leaves it there
PriorityQueue_pop_NoSift(heap) ==
    LET rest == SubSeq(heap, 1, Len(heap) - 1)
    IN  [top |-> heap[1],
         heap |-> IF Len(rest) # 0 THEN [rest EXCEPT ![1] = heap[Len(heap)]] ELSE rest]

\* pop(): the item returned and the heap left (called on non-empty heaps only)
PriorityQueue_pop(heap) ==
    LET top == heap[1]
        last == heap[Len(heap)]
        rest == SubSeq(heap, 1, Len(heap) - 1)
    IN  [top |-> top,
         heap |-> IF Len(rest) # 0 THEN siftDown([rest EXCEPT ![1] = last], 0) ELSE rest]

RECURSIVE popUpTo(_, _, _)
\* the loop of toSortedArray: while (!copy.isEmpty() && out.length < limit)
popUpTo(heap, out, limit) ==
    IF Len(heap) # 0 /\ Len(out) < limit
    THEN LET r == PriorityQueue_pop(heap)
         IN  popUpTo(r.heap, Append(out, r.top), limit)
    ELSE out

\* toSortedArray(limit = 12)
toSortedArray(heap, limit) == popUpTo(heap, <<>>, limit)

(***************************************************************************)
(* DS: HashTable (Chaining).  A key is the sequence of its char codes.     *)
(***************************************************************************)
BucketCount == 53

\* h |= 0: the 32-bit two's complement value of h.  It is h for every h in
\* -2^31 .. 2^31 - 1, which are the only integers TLC computes with (a larger
\* intermediate value stops the check with an overflow error); the hashes of
\* the program's two-character keys stay below 2^23.
ToInt32(h) == h

Abs(x) == IF x < 0 THEN 0 - x ELSE x

RECURSIVE hashFrom(_, _, _)
\* the loop of _hash: h = ((h << 5) + h) + s.charCodeAt(i); h |= 0
hashFrom(s, i, h) ==
    IF i > Len(s) THEN h
    ELSE hashFrom(s, i + 1, ToInt32((ToInt32(h * 32) + h) + s[i]))

\* _hash(key)
hash(key) == Abs(hashFrom(key, 1, 5381)) % BucketCount

\* set(key, value) on the buckets' keys (the first time a key is set)
SimpleHashTable_set(buckets, key) ==
    LET idx == hash(key)
    IN  IF \E i \in 1..Len(buckets[idx]) : buckets[idx][i] = key
        THEN buckets
        ELSE [buckets EXCEPT ![idx] = Append(buckets[idx], key)]

RECURSIVE keysFrom(_, _)
\* keys(): for (const b of this.buckets) for (const [k] of b) out.push(k)
keysFrom(buckets, b) ==
    IF b >= BucketCount THEN <<>> ELSE buckets[b] \o keysFrom(buckets, b + 1)

\* keys() that walks the buckets from the last one down to the first
SimpleHashTable_keys_Reversed(buckets) ==
    keysFrom([b \in 0..(BucketCount - 1) |-> buckets[BucketCount - 1 - b]], 0)

SimpleHashTable_keys(buckets) == keysFrom(buckets, 0)

\* "P1", "P2", "P3" as char codes
P1 == <<80, 49>>
P2 == <<80, 50>>
P3 == <<80, 51>>
PatientIds == {P1, P2, P3}

\* const patients = new SimpleHashTable(); patients.set("P1", ...); ... ("P3", ...)
\* The bucket structure is fixed once the three keys are set; the value stored
\* under each key is kept in the variable `patients`.
patientBuckets ==
    SimpleHashTable_set(
        SimpleHashTable_set(
            SimpleHashTable_set([b \in 0..(BucketCount - 1) |-> <<>>], P1), P2), P3)

\* patients.keys()
patientKeys == SimpleHashTable_keys(patientBuckets)

(***************************************************************************)
(* Domain model and simulation                                             *)
(***************************************************************************)
\* new PatientState(id, label, baseline)
PatientState(id, baseline) ==
    [id |-> id, baseline |-> baseline,
     hr |-> RingBuffer(CAPACITY), spo2 |-> RingBuffer(CAPACITY), temp |-> RingBuffer(CAPACITY),
     eventActiveUntil |-> 0]

\* the three patients created at start-up
initialPatients ==
    [id \in PatientIds |->
        PatientState(id,
            IF id = P1 THEN [hr |-> 78, spo2 |-> 96, temp |-> 986]
            ELSE IF id = P2 THEN [hr |-> 82, spo2 |-> 97, temp |-> 988]
            ELSE [hr |-> 72, spo2 |-> 98, temp |-> 984])]

\* The noise terms randn() * 3, randn() * 0.6 and randn() * 0.12 of one sample,
\* in the units of the model: no noise, or a spike of every vital.
quiet == [hr |-> 0, spo2 |-> 0, temp |-> 0]
spike == [hr |-> 2, spo2 |-> -4, temp |-> 2]
\* The noise drawn in one tick, per patient: the runs explored draw one of these.
NoiseVectors ==
    {[id \in PatientIds |-> quiet],
     [id \in PatientIds |-> spike],
     [id \in PatientIds |-> IF id = P2 THEN spike ELSE quiet]}

\* a generator that ignores the event window
generateVitals_NoEvent(patient, tMs, noise) ==
    [hr |-> clamp(patient.baseline.hr + noise.hr, 45, 210),
     spo2 |-> clamp(patient.baseline.spo2 + noise.spo2, 70, 100),
     temp |-> clamp(patient.baseline.temp + noise.temp, 950, 1060),
     inEvent |-> FALSE]

\* a generator whose event window includes its end (tMs <= eventActiveUntil)
generateVitals_Inclusive(patient, tMs, noise) ==
    LET inEvent == tMs <= patient.eventActiveUntil
        event == IF inEvent THEN [hr |-> 40, spo2 |-> -8, temp |-> 16]
                 ELSE [hr |-> 0, spo2 |-> 0, temp |-> 0]
    IN  [hr |-> clamp(patient.baseline.hr + event.hr + noise.hr, 45, 210),
         spo2 |-> clamp(patient.baseline.spo2 + event.spo2 + noise.spo2, 70, 100),
         temp |-> clamp(patient.baseline.temp + event.temp + noise.temp, 950, 1060),
         inEvent |-> inEvent]

\* generateVitals(patient, tMs), with the noise drawn for it
generateVitals(patient, tMs, noise) ==
    LET inEvent == tMs < patient.eventActiveUntil
        event == IF inEvent THEN [hr |-> 40, spo2 |-> -8, temp |-> 16]
                 ELSE [hr |-> 0, spo2 |-> 0, temp |-> 0]
    IN  [hr |-> clamp(patient.baseline.hr + event.hr + noise.hr, 45, 210),
         spo2 |-> clamp(patient.baseline.spo2 + event.spo2 + noise.spo2, 70, 100),
         temp |-> clamp(patient.baseline.temp + event.temp + noise.temp, 950, 1060),
         inEvent |-> inEvent]

(***************************************************************************)
(* Persistence.  localStorage holds no item under the rules key (<<>>) or  *)
(* one string (<<item>>), modelled by what JSON.parse makes of it:         *)
(*   kind "empty"    the empty string                                      *)
(*   kind "corrupt"  a text that JSON.parse rejects                        *)
(*   kind "null"     the text null                                         *)
(*   kind "scalar"   a JSON number, string, boolean or array               *)
(*   kind "object"   a JSON object; fields maps its keys to their values   *)
(* A value is a number, JsonNull or JsonText (some JSON string).  Reading  *)
(* a key the object does not have gives Undefined.                         *)
(***************************************************************************)
JsonNull == Null
JsonText == -3

\* saveRulesToStorage(rules): JSON.stringify of the six thresholds, NaN written as null
stringify(r) ==
    <<[kind |-> "object",
       fields |-> [k \in RuleKeys |-> IF r[k] = NaN THEN JsonNull ELSE r[k]]]>>

\* parsed[k]
getField(fields, k) == IF k \in DOMAIN fields THEN fields[k] ELSE Undefined

\* a loadRules() that takes every key the stored object has, null included
\* (if (k in parsed) r[k] = parsed[k])
loadRules_KeepNull(stored) ==
    IF stored = <<>> THEN defaultRules
    ELSE IF stored[1].kind # "object" THEN defaultRules
    ELSE [k \in RuleKeys |->
             IF k \in DOMAIN stored[1].fields THEN stored[1].fields[k] ELSE defaultRules[k]]

\* loadRules()
loadRules(stored) ==
    IF stored = <<>> THEN defaultRules                     \* getItem gives null: !raw
    ELSE LET item == stored[1]
         IN  CASE item.kind = "empty" -> defaultRules      \* !raw
               [] item.kind = "corrupt" -> defaultRules    \* JSON.parse throws: catch
               [] item.kind = "null" -> defaultRules       \* parsed[k] throws: catch
               [] item.kind = "scalar" ->                  \* parsed[k] is undefined
                      [k \in RuleKeys |-> defaultRules[k]]
               [] item.kind = "object" ->
                      [k \in RuleKeys |->
                          LET v == getField(item.fields, k)
                          IN  IF v # JsonNull /\ v # Undefined THEN v ELSE defaultRules[k]]

(***************************************************************************)
(* Main tick                                                               *)
(***************************************************************************)
RECURSIVE appendAlerts_AllFp(_, _, _, _, _)
\* an alert loop that counts every alert as a false positive
appendAlerts_AllFp(st, found, i, t, inEvent) ==
    IF i > Len(found) THEN st
    ELSE appendAlerts_AllFp(
            [st EXCEPT
                !.alertHistory = Append(@, [priority |-> found[i].priority,
                                            type |-> found[i].type,
                                            msg |-> found[i].msg,
                                            patientId |-> found[i].patientId,
                                            ts |-> t,
                                            inEvent |-> inEvent]),
                !.metrics = [total |-> @.total + 1, tp |-> @.tp, fp |-> @.fp + 1]],
            found, i + 1, t, inEvent)

RECURSIVE appendAlerts(_, _, _, _, _)
\* for (const a of found) { alertHistory.push({...a, ts: t, inEvent}); metrics... }
\* The random suffix of the alert's id is not modelled: nothing reads the id.
appendAlerts(st, found, i, t, inEvent) ==
    IF i > Len(found) THEN st
    ELSE appendAlerts(
            [st EXCEPT
                !.alertHistory = Append(@, [priority |-> found[i].priority,
                                            type |-> found[i].type,
                                            msg |-> found[i].msg,
                                            patientId |-> found[i].patientId,
                                            ts |-> t,
                                            inEvent |-> inEvent]),
                !.metrics = [total |-> @.total + 1,
                             tp |-> IF inEvent THEN @.tp + 1 ELSE @.tp,
                             fp |-> IF inEvent THEN @.fp ELSE @.fp + 1]],
            found, i + 1, t, inEvent)

\* the body of the loop over patients.keys(), for patient id
processPatient(st, id, t, r, noise) ==
    LET p == st.patients[id]
        s == generateVitals(p, t, noise[id])
        found == evaluateRules(r, s, id)
        st1 == [st EXCEPT !.patients[id].hr = RingBuffer_push(@, s.hr),
                          !.patients[id].spo2 = RingBuffer_push(@, s.spo2),
                          !.patients[id].temp = RingBuffer_push(@, s.temp)]
        st2 == appendAlerts(st1, found, 1, t, s.inEvent)
    IN  [st2 EXCEPT !.runLog = Append(@, [ts |-> t, patientId |-> id,
                                          hr |-> s.hr, spo2 |-> s.spo2, temp |-> s.temp,
                                          inEvent |-> s.inEvent,
                                          alertCount |-> Len(found)])]

RECURSIVE processPatients(_, _, _, _, _, _)
\* for (const id of patients.keys()) { ... }
processPatients(st, keys, i, t, r, noise) ==
    IF i > Len(keys) THEN st
    ELSE processPatients(processPatient(st, keys[i], t, r, noise), keys, i + 1, t, r, noise)

\* an eviction whose age is computed with the operands swapped (a.ts - t)
evict_Swapped(history, t) ==
    SelectSeq(history, LAMBDA a : (a.ts - t) <= ALERT_WINDOW_MS)

\* an eviction that drops the alerts of age ALERT_WINDOW_MS exactly (<)
evict_Strict(history, t) ==
    SelectSeq(history, LAMBDA a : (t - a.ts) < ALERT_WINDOW_MS)

\* alertHistory.filter(a => (t - a.ts) <= ALERT_WINDOW_MS)
evict(history, t) ==
    SelectSeq(history, LAMBDA a : (t - a.ts) <= ALERT_WINDOW_MS)

RECURSIVE pushAll(_, _, _)
pushAll(heap, items, i) ==
    IF i > Len(items) THEN heap
    ELSE pushAll(PriorityQueue_push(heap, items[i]), items, i + 1)

\* a rebuild that pushes onto the queue already there (no new PriorityQueue())
rebuildAlertPQ_NoReset(history) == pushAll(alertPQ, history, 1)

\* rebuildAlertPQ(): a new queue, every retained alert pushed in list order
rebuildAlertPQ(history) == pushAll(<<>>, history, 1)

\* a truncation that keeps the oldest RUN_WINDOW * 3 rows (slice(0, RUN_WINDOW * 3))
trimRunLog_KeepOldest(log) ==
    IF Len(log) > RUN_WINDOW * 3 THEN SubSeq(log, 1, RUN_WINDOW * 3) ELSE log

\* if (runLog.length > RUN_WINDOW * 3) runLog = runLog.slice(-RUN_WINDOW * 3)
trimRunLog(log) ==
    IF Len(log) > RUN_WINDOW * 3
    THEN SubSeq(log, Len(log) - RUN_WINDOW * 3 + 1, Len(log))
    ELSE log

\* a tick() whose counters are recounted from the alerts it retains
tick_CountRetained(t, noise) ==
    LET st0 == [patients |-> patients, alertHistory |-> alertHistory,
                metrics |-> metrics, runLog |-> runLog]
        st1 == processPatients(st0, patientKeys, 1, t, objs[rules], noise)
        kept == evict(st1.alertHistory, t)
    IN  /\ patients' = st1.patients
        /\ metrics' = [total |-> Len(kept),
                       tp |-> Len(SelectSeq(kept, LAMBDA a : a.inEvent)),
                       fp |-> Len(SelectSeq(kept, LAMBDA a : ~a.inEvent))]
        /\ alertHistory' = kept
        /\ alertPQ' = rebuildAlertPQ(kept)
        /\ runLog' = trimRunLog(st1.runLog)
        /\ nTicks' = nTicks + 1
        /\ tickTime' = t

\* tick(), run at time t under the noise drawn for each patient
tick(t, noise) ==
    LET st0 == [patients |-> patients, alertHistory |-> alertHistory,
                metrics |-> metrics, runLog |-> runLog]
        st1 == processPatients(st0, patientKeys, 1, t, objs[rules], noise)
        kept == evict(st1.alertHistory, t)
    IN  /\ patients' = st1.patients
        /\ metrics' = st1.metrics
        /\ alertHistory' = kept
        /\ alertPQ' = rebuildAlertPQ(kept)
        /\ runLog' = trimRunLog(st1.runLog)
        /\ nTicks' = nTicks + 1
        /\ tickTime' = t

tickVars == <<patients, metrics, alertHistory, alertPQ, runLog, nTicks, tickTime>>

(***************************************************************************)
(* The browser's interval timers                                           *)
(***************************************************************************)
\* setInterval(tick, 1000): a handle not in use, first due one interval from now
newHandle == CHOOSE h \in 1..(Cardinality(DOMAIN intervals) + 1) : h \notin DOMAIN intervals
setInterval(h) == [k \in DOMAIN intervals \cup {h} |->
                      IF k = h THEN now + INTERVAL_MS ELSE intervals[k]]
\* clearInterval(h)
clearInterval(h) == [k \in DOMAIN intervals \ {h} |-> intervals[k]]

(***************************************************************************)
(* Rule objects.  {...rules} allocates a new object; an object no variable *)
(* and no stack slot refers to is dropped.                                 *)
(***************************************************************************)
newRef == CHOOSE o \in 1..(Cardinality(DOMAIN objs) + 1) : o \notin DOMAIN objs
live(active, stack) == {active} \cup {stack[i] : i \in 1..Len(stack)}
collect(heapObjs, active, stack) == [o \in live(active, stack) |-> heapObjs[o]]

\* The inputs edited in the runs explored, and the values they parse to:
\* parseInt(el.value, 10) for hrHigh and spo2Low, parseFloat(el.value) for
\* tempCritical.  An empty or non-numeric input parses to NaN.
EditedKeys == {"hrHigh", "spo2Low", "tempCritical"}
EditValues(key) ==
    CASE key = "hrHigh" -> {70, NaN}
      [] key = "spo2Low" -> {97}
      [] key = "tempCritical" -> {988}

\* the steps by which the clock is moved between handlers
TimeSteps == {INTERVAL_MS, EVENT_MS, ALERT_WINDOW_MS}

\* Date.now() when the page is loaded
T0 == 1000 * 1000

(***************************************************************************)
(* Controls                                                                *)
(***************************************************************************)
configVars == <<objs, rules, undo, storage, selectedPatientId, before>>

\* one more handler invocation or clock move, within the bound of the run
step == nSteps < MaxSteps /\ nSteps' = nSteps + 1

\* a start() without the guard `if (timer) return`
start_NoGuard ==
    /\ \E noise \in NoiseVectors :
          LET h == newHandle
          IN  /\ timer' = h
              /\ intervals' = setInterval(h)
              /\ toastMsg' = "Streaming started."
              /\ tick(now, noise)
    /\ step
    /\ lastOp' = "start"
    /\ UNCHANGED <<now, configVars, ringVars, evalVars, pqVars>>

\* a start() that schedules the timer but does not run the first tick itself
start_NoTick ==
    /\ step
    /\ lastOp' = "start"
    /\ \/ /\ timer # Null
          /\ UNCHANGED <<timer, intervals, toastMsg>>
       \/ /\ timer = Null
          /\ LET h == newHandle
             IN  /\ timer' = h
                 /\ intervals' = setInterval(h)
                 /\ toastMsg' = "Streaming started."
    /\ UNCHANGED <<now, tickVars, configVars, ringVars, evalVars, pqVars>>

\* start()
start ==
    /\ step
    /\ lastOp' = "start"
    /\ \/ /\ timer # Null
          /\ UNCHANGED <<timer, intervals, toastMsg, tickVars>>
       \/ /\ timer = Null
          /\ \E noise \in NoiseVectors :
                LET h == newHandle
                IN  /\ timer' = h
                    /\ intervals' = setInterval(h)
                    /\ toastMsg' = "Streaming started."
                    /\ tick(now, noise)
    /\ UNCHANGED <<now, configVars, ringVars, evalVars, pqVars>>

\* a stop() that forgets the timer without cancelling it
stop_NoClear ==
    /\ step
    /\ lastOp' = "stop"
    /\ \/ /\ timer = Null
          /\ UNCHANGED <<timer, intervals, toastMsg>>
       \/ /\ timer # Null
          /\ intervals' = intervals
          /\ timer' = Null
          /\ toastMsg' = "Streaming stopped."
    /\ UNCHANGED <<now, tickVars, configVars, ringVars, evalVars, pqVars>>

\* a stop() that clears the interval but leaves the variable timer set
stop_NoReset ==
    /\ step
    /\ lastOp' = "stop"
    /\ \/ /\ timer = Null
          /\ UNCHANGED <<timer, intervals, toastMsg>>
       \/ /\ timer # Null
          /\ intervals' = clearInterval(timer)
          /\ timer' = timer
          /\ toastMsg' = "Streaming stopped."
    /\ UNCHANGED <<now, tickVars, configVars, ringVars, evalVars, pqVars>>

\* stop()
stop ==
    /\ step
    /\ lastOp' = "stop"
    /\ \/ /\ timer = Null
          /\ UNCHANGED <<timer, intervals, toastMsg>>
       \/ /\ timer # Null
          /\ intervals' = clearInterval(timer)
          /\ timer' = Null
          /\ toastMsg' = "Streaming stopped."
    /\ UNCHANGED <<now, tickVars, configVars, ringVars, evalVars, pqVars>>

\* the browser runs the callback of interval h, one interval or more after it
\* was set or last run, and schedules its next run
timerFire(h) ==
    /\ h \in DOMAIN intervals
    /\ now >= intervals[h]
    /\ \E noise \in NoiseVectors : tick(now, noise)
    /\ intervals' = [intervals EXCEPT ![h] = now + INTERVAL_MS]
    /\ step
    /\ lastOp' = "timer"
    /\ UNCHANGED <<now, timer, toastMsg, configVars, ringVars, evalVars, pqVars>>

\* time passes
advance(d) ==
    /\ step
    /\ now' = now + d
    /\ lastOp' = "clock"
    /\ UNCHANGED <<timer, intervals, toastMsg, tickVars, configVars, ringVars, evalVars, pqVars>>

\* an edit that pushes the active object itself instead of a copy of it
editRule_NoCopy(key, v) ==
    /\ step
    /\ undo' = Stack_push(undo, rules)
    /\ objs' = [objs EXCEPT ![rules][key] = v]
    /\ rules' = rules
    /\ before' = Append(before, objs[rules])
    /\ toastMsg' = "Rule updated (Undo available)."
    /\ lastOp' = "edit"
    /\ UNCHANGED <<now, timer, intervals, tickVars, storage, selectedPatientId,
                   ringVars, evalVars, pqVars>>

\* the change handler bound to the input of `key`, the input parsing to v
editRule(key, v) ==
    /\ step
    /\ LET snapshot == newRef
       IN  /\ undo' = Stack_push(undo, snapshot)
           /\ objs' = [o \in DOMAIN objs \cup {snapshot} |->
                          IF o = snapshot THEN objs[rules]
                          ELSE IF o = rules THEN [objs[rules] EXCEPT ![key] = v]
                          ELSE objs[o]]
    /\ rules' = rules
    /\ before' = Append(before, objs[rules])
    /\ toastMsg' = "Rule updated (Undo available)."
    /\ lastOp' = "edit"
    /\ UNCHANGED <<now, timer, intervals, tickVars, storage, selectedPatientId,
                   ringVars, evalVars, pqVars>>

\* an undo that, finding nothing to pop, falls back to the defaults and reports success
undoRules_DefaultsOnEmpty ==
    /\ LET r == Stack_pop(undo)
       IN  /\ undo' = r.arr
           /\ rules' = IF r.isNull THEN rules ELSE r.value
           /\ objs' = IF r.isNull THEN [objs EXCEPT ![rules] = defaultRules]
                      ELSE collect(objs, r.value, r.arr)
           /\ before' = IF r.isNull THEN before ELSE SubSeq(before, 1, Len(before) - 1)
           /\ toastMsg' = "Undo applied."
    /\ step
    /\ lastOp' = "undo"
    /\ UNCHANGED <<now, timer, intervals, tickVars, storage, selectedPatientId,
                   ringVars, evalVars, pqVars>>

\* an undo that reads the top of the stack without popping it
undoRules_Peek ==
    /\ LET r == Stack_pop(undo)
       IN  /\ undo' = undo
           /\ IF r.isNull
              THEN /\ toastMsg' = "Nothing to undo."
                   /\ UNCHANGED <<rules, objs, before>>
              ELSE /\ rules' = r.value
                   /\ objs' = collect(objs, r.value, undo)
                   /\ before' = SubSeq(before, 1, Len(before) - 1)
                   /\ toastMsg' = "Undo applied."
    /\ step
    /\ lastOp' = "undo"
    /\ UNCHANGED <<now, timer, intervals, tickVars, storage, selectedPatientId,
                   ringVars, evalVars, pqVars>>

\* undoRules()
undoRules ==
    /\ LET r == Stack_pop(undo)
       IN  /\ undo' = r.arr
           /\ IF r.isNull
              THEN /\ toastMsg' = "Nothing to undo."
                   /\ UNCHANGED <<rules, objs, before>>
              ELSE /\ rules' = r.value
                   /\ objs' = collect(objs, r.value, r.arr)
                   /\ before' = SubSeq(before, 1, Len(before) - 1)
                   /\ toastMsg' = "Undo applied."
    /\ step
    /\ lastOp' = "undo"
    /\ UNCHANGED <<now, timer, intervals, tickVars, storage, selectedPatientId,
                   ringVars, evalVars, pqVars>>

\* saveRules()
saveRules ==
    /\ storage' = stringify(objs[rules])
    /\ toastMsg' = "Rules saved."
    /\ step
    /\ lastOp' = "save"
    /\ UNCHANGED <<now, timer, intervals, tickVars, objs, rules, undo,
                   selectedPatientId, before, ringVars, evalVars, pqVars>>

\* an injectEvent() that opens the event window of every patient
injectEvent_AllPatients ==
    /\ step
    /\ patients' = [id \in PatientIds |->
                       [patients[id] EXCEPT !.eventActiveUntil = now + EVENT_MS]]
    /\ toastMsg' = "Injected event."
    /\ lastOp' = "inject"
    /\ UNCHANGED <<now, timer, intervals, metrics, alertHistory, alertPQ, runLog,
                   nTicks, tickTime, objs, rules, undo, storage, selectedPatientId,
                   before, ringVars, evalVars, pqVars>>

\* injectEvent()
injectEvent ==
    /\ step
    /\ patients' = [patients EXCEPT ![selectedPatientId].eventActiveUntil = now + EVENT_MS]
    /\ toastMsg' = "Injected event."
    /\ lastOp' = "inject"
    /\ UNCHANGED <<now, timer, intervals, metrics, alertHistory, alertPQ, runLog,
                   nTicks, tickTime, objs, rules, undo, storage, selectedPatientId,
                   before, ringVars, evalVars, pqVars>>

\* the change handler of patientSelect, which runs when the selection changes
selectPatient(id) ==
    /\ id # selectedPatientId
    /\ selectedPatientId' = id
    /\ toastMsg' = "Viewing."
    /\ step
    /\ lastOp' = "select"
    /\ UNCHANGED <<now, timer, intervals, tickVars, objs, rules, undo, storage,
                   before, ringVars, evalVars, pqVars>>

(***************************************************************************)
(* The application: state after the script has run and mount() returned    *)
(***************************************************************************)
ringIdle == ring = RingBuffer(1) /\ pushed = <<>>
evalIdle ==
    /\ evRules = defaultRules
    /\ evSample = [hr |-> 78, spo2 |-> 96, temp |-> 986, inEvent |-> FALSE]
    /\ evOut = [done |-> FALSE, alerts |-> <<>>]

\* renderAlerts: const top = alertPQ.toSortedArray(12), shown in this order
renderAlerts_top == toSortedArray(alertPQ, LIMIT)

pqIdle == pqItems = <<>> /\ pqHeap = <<>> /\ pqTop = [done |-> FALSE, items |-> <<>>]

appInit ==
    /\ now = T0
    /\ timer = Null
    /\ intervals = <<>>
    /\ storage = <<>>
    /\ objs = [o \in {1} |-> loadRules(storage)]
    /\ rules = 1
    /\ undo = Stack_new
    /\ patients = initialPatients
    /\ selectedPatientId = P1
    /\ alertHistory = <<>>
    /\ alertPQ = <<>>
    /\ metrics = [total |-> 0, tp |-> 0, fp |-> 0]
    /\ runLog = <<>>
    /\ toastMsg = ""
    /\ lastOp = "mount"
    /\ nTicks = 0
    /\ tickTime = 0
    /\ nSteps = 0
    /\ before = <<>>

Init == ringIdle /\ evalIdle /\ pqIdle /\ appInit

Next ==
    \/ start
    \/ stop
    \/ \E h \in DOMAIN intervals : timerFire(h)
    \/ \E d \in TimeSteps : advance(d)
    \/ \E key \in EditedKeys : \E v \in EditValues(key) : editRule(key, v)
    \/ undoRules
    \/ saveRules
    \/ injectEvent
    \/ \E id \in PatientIds : selectPatient(id)

Spec == Init /\ [][Next]_vars

(***************************************************************************)
(* A stand-alone RingBuffer under a sequence of pushes                     *)
(***************************************************************************)
\* capacities the buffer is constructed with: small ones, and the program's
RingCapacities == (1..MaxCapacity) \cup {CAPACITY}
\* pushes made onto a buffer of capacity c: enough to wrap around twice
MaxPushes(c) == 2 * c + 2
\* the values pushed: any of two samples onto a small buffer; onto the
\* program's, the number of the push, so that every value is distinct
PushValues(c, n) == IF c <= MaxCapacity THEN {45, 210} ELSE {n + 1}

ringInit ==
    /\ ring \in {RingBuffer(c) : c \in RingCapacities}
    /\ pushed = <<>>

ringPush(x) ==
    /\ Len(pushed) < MaxPushes(ring.capacity)
    /\ ring' = RingBuffer_push(ring, x)
    /\ pushed' = Append(pushed, x)
    /\ UNCHANGED <<evalVars, pqVars, appVars>>

InitRing == ringInit /\ evalIdle /\ pqIdle /\ appInit
NextRing == \E x \in PushValues(ring.capacity, Len(pushed)) : ringPush(x)
SpecRing == InitRing /\ [][NextRing]_vars

(***************************************************************************)
(* One call of evaluateRules on a rule set and a sample                    *)
(***************************************************************************)
HrThresholds == {120, 150, NaN}
Spo2Thresholds == {92, 86, NaN}
TempThresholds == {1004, 1020, NaN}
RuleSets ==
    [hrHigh : HrThresholds, hrCritical : HrThresholds,
     spo2Low : Spo2Thresholds, spo2Critical : Spo2Thresholds,
     tempHigh : TempThresholds, tempCritical : TempThresholds]
Samples ==
    [hr : {119, 120, 135, 150, 151}, spo2 : {85, 86, 87, 92, 93},
     temp : {1003, 1004, 1010, 1020, 1021}, inEvent : {FALSE}]

evalInit ==
    /\ evRules \in RuleSets
    /\ evSample \in Samples
    /\ evOut = [done |-> FALSE, alerts |-> <<>>]

evaluate ==
    /\ ~evOut.done
    /\ evOut' = [done |-> TRUE, alerts |-> evaluateRules(evRules, evSample, P1)]
    /\ UNCHANGED <<evRules, evSample, ringVars, pqVars, appVars>>

InitRules == ringIdle /\ evalInit /\ pqIdle /\ appInit
NextRules == evaluate
SpecRules == InitRules /\ [][NextRules]_vars

(***************************************************************************)
(* One PriorityQueue on its own: alerts are pushed one at a time, as       *)
(* rebuildAlertPQ does, and renderAlerts takes toSortedArray(12).  The     *)
(* alerts arrive as the ticks append them: one per patient and tick, the   *)
(* timestamps never decreasing, each of either priority.                   *)
(***************************************************************************)
\* the queue is filled with up to LIMIT + MaxExtra alerts
MaxExtra == 1

Priorities == {1, 2}

\* the i-th alert appended: patient and tick follow from its position
pqAlert(i, priority) ==
    [priority |-> priority,
     ts |-> T0 + ((i - 1) \div Len(patientKeys)) * INTERVAL_MS,
     patientId |-> patientKeys[((i - 1) % Len(patientKeys)) + 1]]

\* alertPQ.push(a)
pqPush(priority) ==
    /\ ~pqTop.done
    /\ Len(pqItems) < LIMIT + MaxExtra
    /\ LET a == pqAlert(Len(pqItems) + 1, priority)
       IN  /\ pqItems' = Append(pqItems, a)
           /\ pqHeap' = PriorityQueue_push(pqHeap, a)
    /\ UNCHANGED <<pqTop, ringVars, evalVars, appVars>>

\* renderAlerts: const top = alertPQ.toSortedArray(12)
pqRender ==
    /\ ~pqTop.done
    /\ pqTop' = [done |-> TRUE, items |-> toSortedArray(pqHeap, LIMIT)]
    /\ UNCHANGED <<pqItems, pqHeap, ringVars, evalVars, appVars>>

InitPQ == ringIdle /\ evalIdle /\ pqIdle /\ appInit
NextPQ == (\E priority \in Priorities : pqPush(priority)) \/ pqRender
SpecPQ == InitPQ /\ [][NextPQ]_vars

(***************************************************************************)
(* A long streaming session: the page has been streaming since start() at  *)
(* T0, one tick a second, and its run log is about to reach the cap of     *)
(* RUN_WINDOW * 3 rows; the timer's ticks that follow are explored.        *)
(***************************************************************************)
\* the ticks explored after the warm-up
ExtraTicks == 4

\* the ticks that have run when the exploration begins: 3 rows short of the cap
WarmTicks == RUN_WINDOW - 1

\* the k-th tick of a session started at T0 (undisturbed vitals, default
\* rules), as tick() computes it
streamTick(st, k) ==
    LET t == T0 + (k - 1) * INTERVAL_MS
        st1 == processPatients(st, patientKeys, 1, t, defaultRules,
                               [id \in PatientIds |-> quiet])
    IN  [st1 EXCEPT !.alertHistory = evict(@, t), !.runLog = trimRunLog(@)]

RECURSIVE streamTicks(_, _, _)
\* the ticks k, k + 1, ..., k + n - 1 in turn (the range is halved, and the
\* first half computed before the second is entered, to keep the evaluation
\* shallow; a tick leaves three rows, so the log is never empty after one)
streamTicks(st, k, n) ==
    IF n = 0 THEN st
    ELSE IF n = 1 THEN streamTick(st, k)
    ELSE LET half == streamTicks(st, k, n \div 2)
         IN  IF Len(half.runLog) > 0
             THEN streamTicks(half, k + n \div 2, n - n \div 2)
             ELSE half

\* what the first n ticks of the session leave behind
streamed(n) ==
    streamTicks([patients |-> initialPatients, alertHistory |-> <<>>,
                 metrics |-> [total |-> 0, tp |-> 0, fp |-> 0], runLog |-> <<>>],
                1, n)

logInit ==
    LET st == streamed(WarmTicks)
    IN  /\ now = T0 + (WarmTicks - 1) * INTERVAL_MS
        /\ timer = 1
        /\ intervals = [h \in {1} |-> T0 + WarmTicks * INTERVAL_MS]
        /\ storage = <<>>
        /\ objs = [o \in {1} |-> loadRules(storage)]
        /\ rules = 1
        /\ undo = Stack_new
        /\ patients = st.patients
        /\ selectedPatientId = P1
        /\ alertHistory = st.alertHistory
        /\ alertPQ = rebuildAlertPQ(st.alertHistory)
        /\ metrics = st.metrics
        /\ runLog = st.runLog
        /\ toastMsg = "Streaming started."
        /\ lastOp = "timer"
        /\ nTicks = WarmTicks
        /\ tickTime = now
        /\ nSteps = 0
        /\ before = <<>>

\* the interval of timer h elapses and its callback tick() runs at the due time
elapse(h) ==
    /\ nTicks < WarmTicks + ExtraTicks
    /\ now' = intervals[h]
    /\ \E noise \in NoiseVectors : tick(intervals[h], noise)
    /\ intervals' = [intervals EXCEPT ![h] = intervals[h] + INTERVAL_MS]
    /\ lastOp' = "timer"
    /\ UNCHANGED <<timer, toastMsg, nSteps, configVars, ringVars, evalVars, pqVars>>

InitLog == ringIdle /\ evalIdle /\ pqIdle /\ logInit
NextLog == \E h \in DOMAIN intervals : elapse(h)
SpecLog == InitLog /\ [][NextLog]_vars

(***************************************************************************)
(* Loading the page over a stored item: the script's `let rules =          *)
(* loadRules()` runs on whatever localStorage holds under the rules key.   *)
(***************************************************************************)
\* a key of the stored object that is none of the six thresholds
UnknownKey == "rrHigh"
StoredKeys == RuleKeys \cup {UnknownKey}

\* what the stored object holds under a key: nothing, null, a string, a number
StoredChoices == {Undefined, JsonNull, JsonText, 95}

StoredObjects ==
    {[k \in {x \in StoredKeys : c[x] # Undefined} |-> c[k]] : c \in [StoredKeys -> StoredChoices]}

StoredItems ==
    {<<>>}
    \cup {<<[kind |-> kind, fields |-> <<>>]>> : kind \in {"empty", "corrupt", "null", "scalar"}}
    \cup {<<[kind |-> "object", fields |-> f]>> : f \in StoredObjects}

\* the page before its script has run: no rule object yet
loadInit ==
    /\ now = T0
    /\ timer = Null
    /\ intervals = <<>>
    /\ storage \in StoredItems
    /\ objs = <<>>
    /\ rules = Null
    /\ undo = Stack_new
    /\ patients = initialPatients
    /\ selectedPatientId = P1
    /\ alertHistory = <<>>
    /\ alertPQ = <<>>
    /\ metrics = [total |-> 0, tp |-> 0, fp |-> 0]
    /\ runLog = <<>>
    /\ toastMsg = ""
    /\ lastOp = "boot"
    /\ nTicks = 0
    /\ tickTime = 0
    /\ nSteps = 0
    /\ before = <<>>

\* let rules = loadRules()
boot ==
    /\ lastOp = "boot"
    /\ objs' = [o \in {1} |-> loadRules(storage)]
    /\ rules' = 1
    /\ lastOp' = "mount"
    /\ UNCHANGED <<now, timer, intervals, tickVars, undo, storage, selectedPatientId,
                   before, toastMsg, nSteps, ringVars, evalVars, pqVars>>

InitLoad == ringIdle /\ evalIdle /\ pqIdle /\ loadInit
NextLoad == boot
SpecLoad == InitLoad /\ [][NextLoad]_vars

(***************************************************************************)
(*                              Properties                                 *)
(***************************************************************************)
lastN(seq, n) == SubSeq(seq, Len(seq) - n + 1, Len(seq))

\* C1: after n pushes onto a RingBuffer of capacity C, toArray() is exactly
\* the last min(n, C) pushed values, oldest first; so, once the buffer is
\* full, each further push drops exactly the oldest retained value.
C1_RingKeepsLastInOrder ==
    RingBuffer_toArray(ring) = lastN(pushed, Min(Len(pushed), ring.capacity))

\* the program's buffer of 60 after 121 pushes: it holds pushes 62..121
C1_Witness ==
    /\ ring.capacity = CAPACITY
    /\ Len(pushed) = 2 * CAPACITY + 1
    /\ RingBuffer_toArray(ring)[1] = CAPACITY + 2
    /\ RingBuffer_toArray(ring)[CAPACITY] = 2 * CAPACITY + 1

\* C2: last() is the value of the most recent push, also after wrap-around,
\* and null when nothing was ever pushed.
C2_LastIsMostRecent ==
    RingBuffer_last(ring) = IF pushed = <<>> THEN Null ELSE pushed[Len(pushed)]

\* a buffer that has wrapped around, whose last push differs from the one before
C2_Witness ==
    /\ Len(pushed) > ring.capacity + 1
    /\ pushed[Len(pushed)] # pushed[Len(pushed) - 1]
    /\ RingBuffer_last(ring) = pushed[Len(pushed)]

VitalTypes == {"HR", "SpO2", "Temp"}
alertsOf(alerts, type) == {i \in 1..Len(alerts) : alerts[i].type = type}
hasAlert(alerts, type, priority) ==
    \E i \in 1..Len(alerts) : alerts[i].type = type /\ alerts[i].priority = priority

\* C3: for every rule set (also one whose critical threshold is less extreme
\* than its high/low threshold) and every sample, evaluateRules returns at
\* most one alert per vital type, hence at most three, and never a
\* priority-1 and a priority-2 alert for the same vital.
C3_AtMostOneAlertPerVital ==
    evOut.done =>
        /\ Len(evOut.alerts) <= 3
        /\ \A i \in 1..Len(evOut.alerts) : evOut.alerts[i].type \in VitalTypes
        /\ \A type \in VitalTypes :
              /\ Cardinality(alertsOf(evOut.alerts, type)) <= 1
              /\ ~(hasAlert(evOut.alerts, type, 1) /\ hasAlert(evOut.alerts, type, 2))

\* inverted HR thresholds (critical 120 below high 150) and a sample beyond
\* every threshold: three alerts, one per vital
C3_Witness ==
    /\ evOut.done
    /\ evRules.hrCritical = 120 /\ evRules.hrHigh = 150
    /\ evSample.hr = 151
    /\ Len(evOut.alerts) = 3

\* value v reaches threshold th from below (>=) / from above (<=), as
\* JavaScript compares numbers: never when the threshold is NaN
reaches(v, th) == th # NaN /\ v >= th
fallsTo(v, th) == th # NaN /\ v <= th

\* C4: HR gives priority 1 iff hr >= hrCritical, else priority 2 iff
\* hr >= hrHigh, else nothing; SpO2 likewise with <=; Temp likewise with >=;
\* a value equal to a threshold triggers it.  Under the default rules HR in
\* [120, 150) gives a priority-2 HR alert, HR >= 150 a priority-1 HR alert,
\* and SpO2 = 85 with HR and temperature below their thresholds gives
\* exactly one alert, of priority 1.
C4_Classification ==
    evOut.done =>
        LET a == evOut.alerts
            r == evRules
            s == evSample
        IN  /\ hasAlert(a, "HR", 1) <=> reaches(s.hr, r.hrCritical)
            /\ hasAlert(a, "HR", 2) <=> (~reaches(s.hr, r.hrCritical) /\ reaches(s.hr, r.hrHigh))
            /\ hasAlert(a, "SpO2", 1) <=> fallsTo(s.spo2, r.spo2Critical)
            /\ hasAlert(a, "SpO2", 2) <=>
                  (~fallsTo(s.spo2, r.spo2Critical) /\ fallsTo(s.spo2, r.spo2Low))
            /\ hasAlert(a, "Temp", 1) <=> reaches(s.temp, r.tempCritical)
            /\ hasAlert(a, "Temp", 2) <=>
                  (~reaches(s.temp, r.tempCritical) /\ reaches(s.temp, r.tempHigh))
            /\ \A i \in 1..Len(a) : a[i].priority \in {1, 2} /\ a[i].type \in VitalTypes
            /\ (r = defaultRules /\ s.hr >= 120 /\ s.hr < 150) =>
                  (hasAlert(a, "HR", 2) /\ ~hasAlert(a, "HR", 1))
            /\ (r = defaultRules /\ s.hr >= 150) =>
                  (hasAlert(a, "HR", 1) /\ ~hasAlert(a, "HR", 2))
            /\ (r = defaultRules /\ s.spo2 = 85 /\ s.hr < 120 /\ s.temp < 1004) =>
                  (Len(a) = 1 /\ a[1].priority = 1 /\ a[1].type = "SpO2"
                   /\ a[1].msg.text = "Critical SpO2")

\* the default rules, SpO2 85, HR and temperature below their thresholds
C4_Witness ==
    /\ evOut.done
    /\ evRules = defaultRules
    /\ evSample.spo2 = 85 /\ evSample.hr = 119 /\ evSample.temp = 1003
    /\ Len(evOut.alerts) = 1

\* C5: every successful undo makes active exactly the rule set that was
\* active immediately before the most recent edit not yet undone, whatever
\* edits and undos (and other handlers) came before; so k edits followed by
\* k undos restore the rule set active before the first of them.
C5_UndoIsLIFO ==
    [][(lastOp' = "undo" /\ undo # <<>>) =>
          /\ objs'[rules'] = before[Len(before)]
          /\ Len(undo') = Len(undo) - 1
          /\ \A i \in 1..Len(undo') : objs'[undo'[i]] = before[i]]_vars

\* two edits, then one undo: the once-edited rule set is active again and
\* the original one is still on the stack
C5_Witness ==
    /\ lastOp = "undo" /\ toastMsg = "Undo applied."
    /\ Len(undo) = 1
    /\ objs[undo[1]] = defaultRules
    /\ objs[rules] # defaultRules

\* C6: undoRules() on an empty undo stack reports "Nothing to undo." and
\* leaves the active rule set and the empty stack as they were.
C6_UndoOnEmptyIsNotice ==
    [][(lastOp' = "undo" /\ undo = <<>>) =>
          /\ toastMsg' = "Nothing to undo."
          /\ undo' = <<>>
          /\ rules' = rules /\ objs' = objs
          /\ UNCHANGED <<timer, intervals, tickVars, storage, selectedPatientId>>]_vars

\* an undo on an empty stack, after an edit and its undo
C6_Witness ==
    /\ lastOp = "undo" /\ toastMsg = "Nothing to undo."
    /\ undo = <<>>
    /\ nSteps >= 3

\* C7: right after the eviction step of a tick with timestamp t, no alert a
\* with t - a.ts > 120000 is retained.
C7_NoExpiredAlertRetained ==
    nTicks > 0 =>
        \A i \in 1..Len(alertHistory) : ~(tickTime - alertHistory[i].ts > 120000)

\* a tick that evicted an alert and retained another
C7_Witness ==
    /\ nTicks = 2
    /\ lastOp = "timer"
    /\ Len(alertHistory) > 0
    /\ metrics.total > Len(alertHistory)

\* C8: start() while Running and stop() while Idle are no-ops: the timer
\* handle and the Idle/Running state are unchanged, no tick is executed and
\* no timer is scheduled.
C8_RedundantStartStopAreNoOps ==
    [][((lastOp' = "start" /\ timer # Null) \/ (lastOp' = "stop" /\ timer = Null)) =>
          /\ timer' = timer
          /\ intervals' = intervals
          /\ nTicks' = nTicks
          /\ UNCHANGED <<tickVars, toastMsg, configVars, now>>]_vars

\* a second start() while Running: still one tick, one timer
C8_Witness ==
    /\ lastOp = "start" /\ timer # Null
    /\ nSteps = 2 /\ nTicks = 1
    /\ Cardinality(DOMAIN intervals) = 1

\* C9: start() while Idle makes the orchestrator Running and executes exactly
\* one tick before it returns; every other tick is a firing of the periodic
\* timer, one interval or more after the tick before it.
C9_StartTicksOnceThenTimer ==
    [][/\ (lastOp' = "start" /\ timer = Null) =>
             /\ timer' # Null
             /\ timer' \in DOMAIN intervals'
             /\ nTicks' = nTicks + 1
             /\ tickTime' = now
       /\ (nTicks' # nTicks) =>
             /\ nTicks' = nTicks + 1
             /\ \/ lastOp' = "start" /\ timer = Null
                \/ /\ lastOp' = "timer"
                   /\ timer # Null /\ timer' = timer
                   /\ timer \in DOMAIN intervals
                   /\ now - tickTime >= INTERVAL_MS]_vars

\* a tick fired by the timer after the tick of start()
C9_Witness ==
    /\ lastOp = "timer"
    /\ nTicks = 2
    /\ timer # Null

\* C10: stop() while Running cancels the timer and makes the orchestrator
\* Idle; while Idle no tick is executed except by the next start(), whatever
\* handlers run and however much time passes.
C10_StopCancelsTicks ==
    [][/\ (lastOp' = "stop" /\ timer # Null) =>
             /\ timer' = Null
             /\ timer \notin DOMAIN intervals'
             /\ nTicks' = nTicks
       /\ (timer = Null /\ nTicks' # nTicks) => lastOp' = "start"
       /\ (timer' = Null) => intervals' = <<>>]_vars

\* stopped after a tick, and more than an interval has passed without a tick
C10_Witness ==
    /\ timer = Null
    /\ nTicks = 1
    /\ toastMsg = "Streaming stopped."
    /\ now - tickTime >= INTERVAL_MS


\* the elements of a sequence
Range(seq) == {seq[i] : i \in 1..Len(seq)}

\* C11: the list taken by renderAlerts, toSortedArray(12), has length
\* min(12, number of alerts in the queue), holds alerts of the queue, each once,
\* in ascending priority (no warning before a critical alert), and no alert
\* left out outranks a shown one (no warning shown while a critical one is
\* left out).
C11_TopIsRankedPrefix ==
    pqTop.done =>
        LET top == pqTop.items
            leftOut == Range(pqItems) \ Range(top)
        IN  /\ Len(top) = Min(LIMIT, Len(pqItems))
            /\ Range(top) \subseteq Range(pqItems)
            /\ Cardinality(Range(top)) = Len(top)
            /\ \A i, j \in 1..Len(top) : i < j => top[i].priority <= top[j].priority
            /\ \A a \in leftOut : \A i \in 1..Len(top) : top[i].priority <= a.priority
            /\ \A a \in leftOut : \A i \in 1..Len(top) : compare(top[i], a) <= 0

\* more alerts than the cap, both priorities shown, a warning left out
C11_Witness ==
    /\ pqTop.done
    /\ Len(pqItems) > LIMIT
    /\ Len(pqTop.items) = LIMIT
    /\ pqTop.items[1].priority = 1
    /\ pqTop.items[LIMIT].priority = 2
    /\ pqItems[1].priority = 2
    /\ pqItems[Len(pqItems)].priority = 1


\* C12: among the retained alerts of equal priority, the more recent one is
\* shown before the older one, and is the one kept when the cap of 12 cuts.
C12_MoreRecentFirst ==
    LET top == renderAlerts_top
    IN  /\ \A i, j \in 1..Len(top) :
               (i < j /\ top[i].priority = top[j].priority) => top[i].ts >= top[j].ts
        /\ \A a \in Range(alertHistory) \ Range(top) : \A i \in 1..Len(top) :
               top[i].priority = a.priority => top[i].ts >= a.ts

\* C20: the retained alerts that tie on priority and on timestamp are shown
\* in the order in which they were inserted into the queue (the order of
\* alertHistory).
C20_TiesInInsertionOrder ==
    LET top == renderAlerts_top
    IN  \A k \in 1..Len(top) :
            LET tie(a) == a.priority = top[k].priority /\ a.ts = top[k].ts
                shown == SelectSeq(top, tie)
                inserted == SelectSeq(alertHistory, tie)
            IN  shown = SubSeq(inserted, 1, Len(shown))


\* C13: patients.keys() enumerates the patient ids in the order in which they
\* were set (P1, P2, P3), and every tick processes the patients in this order:
\* the run log consists of one group of three rows per tick, for P1, P2, P3.
C13_PatientsInInsertionOrder ==
    /\ patientKeys = <<P1, P2, P3>>
    /\ Len(runLog) = 3 * nTicks
    /\ \A k \in 1..nTicks :
          /\ runLog[3 * k - 2].patientId = P1
          /\ runLog[3 * k - 1].patientId = P2
          /\ runLog[3 * k].patientId = P3
          /\ runLog[3 * k - 2].ts = runLog[3 * k].ts
          /\ runLog[3 * k - 1].ts = runLog[3 * k].ts

\* two ticks at different times have run
C13_Witness ==
    /\ nTicks = 2
    /\ Len(runLog) = 6
    /\ runLog[1].ts < runLog[4].ts


\* C14: no operation (tick, start, stop, rule edit, undo, save, inject,
\* patient selection, passing of time) lowers metrics.total, metrics.tp or
\* metrics.fp, also not a tick that evicts alerts.
C14_MetricsNeverDecrease ==
    [][/\ metrics'.total >= metrics.total
       /\ metrics'.tp >= metrics.tp
       /\ metrics'.fp >= metrics.fp]_vars

\* alerts were counted and every one of them has been evicted since
C14_Witness ==
    /\ metrics.total > 0
    /\ alertHistory = <<>>
    /\ lastOp = "timer"


\* the run-log rows appended by the tick just taken, in order
newRows == SubSeq(runLog', Len(runLog') - Len(patientKeys) + 1, Len(runLog'))

\* C15: injectEvent at time now sets the selected patient's eventActiveUntil
\* to now + 25000 whatever it was before, and changes no other patient; a tick
\* at time t samples a patient in the event (flag set, heart rate raised by 40
\* and SpO2 lowered by 8 against the baseline) exactly when t is below the
\* patient's eventActiveUntil, and out of the event from t = eventActiveUntil on.
C15_EventWindow ==
    [][/\ lastOp' = "inject" =>
              patients' = [patients EXCEPT
                              ![selectedPatientId].eventActiveUntil = now + EVENT_MS]
       /\ nTicks' # nTicks =>
              \A k \in 1..Len(newRows) :
                  LET row == newRows[k]
                      p == patients[row.patientId]
                  IN  /\ row.ts = now
                      /\ row.inEvent <=> (now < p.eventActiveUntil)
                      /\ row.inEvent <=> (row.hr >= p.baseline.hr + 40)
                      /\ row.inEvent <=> (row.spo2 <= p.baseline.spo2 - 8)
                      /\ patients'[row.patientId].eventActiveUntil = p.eventActiveUntil]_vars

\* a tick inside the window, then a tick exactly at its end
C15_Witness ==
    /\ nTicks = 2
    /\ runLog[1].inEvent
    /\ ~runLog[4].inEvent
    /\ runLog[4].ts = patients[P1].eventActiveUntil
    /\ runLog[4].patientId = P1


\* C16: a tick appends one run-log row per patient, stamped with the tick's
\* time, to the rows already there and keeps the last RUN_WINDOW * 3 = 3600 rows
\* of the result in their order: the log never holds more than 3600 rows, and
\* a row is dropped only when every row older than it is dropped too.
C16_RunLogKeepsNewestRows ==
    [][/\ Len(runLog') <= RUN_WINDOW * 3
       /\ RUN_WINDOW * 3 = 3600
       /\ nTicks' # nTicks =>
              LET all == runLog \o newRows
              IN  /\ \A k \in 1..Len(patientKeys) :
                         /\ newRows[k].patientId = patientKeys[k]
                         /\ newRows[k].ts = tickTime'
                  /\ runLog' = lastN(all, Min(Len(all), RUN_WINDOW * 3))]_vars

\* the log is at its cap and the rows of the first ticks are gone
C16_Witness ==
    /\ Len(runLog) = RUN_WINDOW * 3
    /\ nTicks > RUN_WINDOW + 1
    /\ runLog[1].ts > T0 + INTERVAL_MS
    /\ runLog[Len(runLog)].ts = tickTime
    /\ runLog[Len(runLog) - 2].alertCount > 0


\* the part of C17 that does not depend on how a stored null is read: the
\* result has the six keys, and is the defaults unless a JSON object is stored
loadedShape ==
    /\ DOMAIN objs[rules] = RuleKeys
    /\ (storage = <<>> \/ storage[1].kind # "object") => objs[rules] = defaultRules

\* C17 as stated: loadRules() returns a record of the six threshold keys, the
\* defaults when nothing usable is stored; over a stored object each key takes
\* the stored value when the object has the key and the default when it has
\* not, and other stored keys are ignored.
C17_StoredValueWhenPresent ==
    lastOp = "mount" =>
        /\ loadedShape
        /\ (storage # <<>> /\ storage[1].kind = "object") =>
               \A k \in RuleKeys :
                   objs[rules][k] = IF k \in DOMAIN storage[1].fields
                                    THEN storage[1].fields[k]
                                    ELSE defaultRules[k]

\* C17, amended: over a stored object each key takes the stored value when
\* the object has the key with a value other than null, and the default when
\* the key is missing or its value is null.
C17_StoredValueUnlessNull ==
    lastOp = "mount" =>
        /\ loadedShape
        /\ (storage # <<>> /\ storage[1].kind = "object") =>
               \A k \in RuleKeys :
                   objs[rules][k] = IF /\ k \in DOMAIN storage[1].fields
                                       /\ storage[1].fields[k] # JsonNull
                                    THEN storage[1].fields[k]
                                    ELSE defaultRules[k]

\* loaded over an object with a stored number, a stored null, a missing key
\* and an unknown key
C17_Witness ==
    /\ lastOp = "mount"
    /\ storage # <<>>
    /\ storage[1].kind = "object"
    /\ DOMAIN storage[1].fields = {"hrHigh", "hrCritical", "spo2Low", UnknownKey}
    /\ storage[1].fields["hrHigh"] = 95
    /\ storage[1].fields["hrCritical"] = JsonNull
    /\ storage[1].fields["spo2Low"] = JsonText
    /\ objs[rules]["hrHigh"] = 95
    /\ objs[rules]["hrCritical"] = defaultRules["hrCritical"]
    /\ objs[rules]["tempHigh"] = defaultRules["tempHigh"]


RECURSIVE createdFrom(_, _, _)
\* the number of alerts the ticks at time ts appended for patient id, by the
\* run-log rows from the i-th on
createdFrom(i, ts, id) ==
    IF i > Len(runLog) THEN 0
    ELSE (IF runLog[i].ts = ts /\ runLog[i].patientId = id THEN runLog[i].alertCount ELSE 0)
         + createdFrom(i + 1, ts, id)

\* the number of retained alerts of time ts and patient id
retained(ts, id) ==
    Len(SelectSeq(alertHistory, LAMBDA a : a.ts = ts /\ a.patientId = id))

\* C18: after every tick (its time t is tickTime), all the alerts created by a
\* tick at a time ts with t - ts <= 120000 are still retained, those of the
\* tick itself (t - ts = 0) and those of age 120000 exactly included.
C18_RetainedThroughWindow ==
    \A i \in 1..Len(runLog) :
        (tickTime - runLog[i].ts) <= 2 * 60 * 1000 =>
            retained(runLog[i].ts, runLog[i].patientId)
                = createdFrom(1, runLog[i].ts, runLog[i].patientId)

\* an alert of age 120000 exactly has gone through a tick and is retained
C18_Witness ==
    /\ nTicks >= 2
    /\ \E i \in 1..Len(alertHistory) : tickTime - alertHistory[i].ts = 2 * 60 * 1000


\* the number of alerts of tick time t in a list that satisfy P
countAt(history, t, P(_)) == Len(SelectSeq(history, LAMBDA a : a.ts = t /\ P(a)))

\* the number of alerts stamped t that the tick just taken (at time t) added
\* and that satisfy P: alerts stamped t are not evicted by this tick
appended(t, P(_)) == countAt(alertHistory', t, P) - countAt(alertHistory, t, P)

\* C19: the alerts a tick appends carry the tick's time and their sample's
\* event flag, and each is counted once: total grows by their number, tp by
\* the number of those in an event, fp by the number of the others; the row of
\* each patient records the number of alerts appended for that patient, all
\* flagged as the row is; and metrics.total = tp + fp throughout.
C19_AlertsCountedOnce ==
    [][/\ metrics.total = metrics.tp + metrics.fp
       /\ metrics'.total = metrics'.tp + metrics'.fp
       /\ nTicks' # nTicks =>
              LET t == tickTime'
              IN  /\ metrics'.total - metrics.total = appended(t, LAMBDA a : TRUE)
                  /\ metrics'.tp - metrics.tp = appended(t, LAMBDA a : a.inEvent)
                  /\ metrics'.fp - metrics.fp = appended(t, LAMBDA a : ~a.inEvent)
                  /\ \A k \in 1..Len(newRows) :
                         LET row == newRows[k]
                         IN  /\ row.alertCount
                                    = appended(t, LAMBDA a : a.patientId = row.patientId)
                             /\ 0 = appended(t, LAMBDA a : /\ a.patientId = row.patientId
                                                           /\ a.inEvent # row.inEvent)
       /\ nTicks' = nTicks => UNCHANGED <<metrics, alertHistory, runLog>>]_vars

\* true and false positives counted, one sample having raised several alerts
C19_Witness ==
    /\ metrics.tp > 1
    /\ metrics.fp > 0
    /\ \E i \in 1..Len(runLog) : runLog[i].alertCount > 1 /\ runLog[i].inEvent
    /\ \E i \in 1..Len(runLog) : runLog[i].alertCount > 0 /\ ~runLog[i].inEvent


\* how often x occurs in a sequence
occurrences(seq, x) == Cardinality({i \in 1..Len(seq) : seq[i] = x})

\* C21: in every state between handler invocations alertPQ holds the alerts
\* of alertHistory, each as often as the list does, and its heap array is in
\* heap order under the comparator (no item ranks before its parent); so the
\* list shown holds retained alerts only, and min(12, retained) of them.
C21_QueueMirrorsHistory ==
    /\ Len(alertPQ) = Len(alertHistory)
    /\ \A a \in Range(alertHistory) \cup Range(alertPQ) :
           occurrences(alertPQ, a) = occurrences(alertHistory, a)
    /\ \A i \in 2..Len(alertPQ) : compare(alertPQ[i \div 2], alertPQ[i]) <= 0
    /\ Range(renderAlerts_top) \subseteq Range(alertHistory)
    /\ Len(renderAlerts_top) = Min(LIMIT, Len(alertHistory))

\* a second tick has rebuilt the queue; it holds three alerts in an order
\* other than the list's, a critical one at its root
C21_Witness ==
    /\ nTicks >= 2
    /\ Len(alertPQ) >= 3
    /\ alertPQ # alertHistory
    /\ alertPQ[1].priority = 1
    /\ alertHistory[1].priority = 2


\* C22: whatever start() and stop() calls and timer firings have happened, at
\* most one interval timer is scheduled; the variable timer is non-null
\* exactly when one is, and then it is the handle of that timer; and a tick
\* run by the timer is run by that one timer.
C22_AtMostOneTimer ==
    [][/\ Cardinality(DOMAIN intervals') <= 1
       /\ (timer' # Null) <=> (DOMAIN intervals' # {})
       /\ timer' # Null => DOMAIN intervals' = {timer'}
       /\ lastOp' = "timer" => (timer # Null /\ DOMAIN intervals = {timer})]_vars

\* started, stopped and started again, with a start() while running: one
\* timer is scheduled, its first run due one interval after the last start
C22_Witness ==
    /\ lastOp = "start"
    /\ nSteps = 4
    /\ nTicks = 2
    /\ timer # Null
    /\ DOMAIN intervals = {timer}
    /\ intervals[timer] = now + INTERVAL_MS


\* the sample buffers of every patient are as they were
buffersUnchanged ==
    \A id \in PatientIds :
        /\ patients'[id].hr = patients[id].hr
        /\ patients'[id].spo2 = patients[id].spo2
        /\ patients'[id].temp = patients[id].temp

\* C23: a step that runs no tick (a rule edit, undoRules, saveRules,
\* injectEvent, stop, a patient selection, time passing) leaves the sample
\* buffers, alertHistory, alertPQ, the metrics and the run log as they were;
\* rule edits, undoRules, saveRules and injectEvent also leave the timer as
\* it was; the first three leave the patients untouched, and injectEvent
\* changes nothing of them but the selected patient's eventActiveUntil.
C23_OnlyTickChangesData ==
    [][/\ nTicks' = nTicks =>
              /\ buffersUnchanged
              /\ UNCHANGED <<alertHistory, alertPQ, metrics, runLog>>
       /\ lastOp' \in {"edit", "undo", "save", "inject"} =>
              /\ nTicks' = nTicks
              /\ UNCHANGED <<timer, intervals>>
       /\ lastOp' \in {"edit", "undo", "save"} => patients' = patients
       /\ lastOp' = "inject" =>
              /\ patients' = [patients EXCEPT ![selectedPatientId].eventActiveUntil =
                                 patients'[selectedPatientId].eventActiveUntil]
              /\ UNCHANGED <<objs, rules, undo, storage, selectedPatientId>>]_vars

\* stopped with an alert retained, time has passed, and a rule was edited:
\* the alert is still there
C23_Witness ==
    /\ lastOp = "edit"
    /\ timer = Null
    /\ nTicks = 1
    /\ now > tickTime
    /\ Len(alertHistory) > 0
    /\ Len(alertPQ) = Len(alertHistory)


\* C24: a snapshot on the undo stack stays the same object with the same six
\* thresholds for as long as it is on the stack, whatever is edited or undone;
\* the active rule object is never an object on the stack; and the depth of
\* the stack grows by one with every edit, shrinks by one with every undo on
\* a non-empty stack, and changes in no other step (so it is the number of
\* edits minus the number of successful undos).
C24_SnapshotsIsolated ==
    [][/\ \A i \in 1..Min(Len(undo), Len(undo')) :
              /\ undo'[i] = undo[i]
              /\ objs'[undo'[i]] = objs[undo[i]]
       /\ \A i \in 1..Len(undo') : undo'[i] # rules'
       /\ \A i, j \in 1..Len(undo') : i # j => undo'[i] # undo'[j]
       /\ Len(undo') = Len(undo) + (IF lastOp' = "edit" THEN 1
                                    ELSE IF lastOp' = "undo" /\ undo # <<>> THEN -1
                                    ELSE 0)
       /\ Len(undo') = Len(before')]_vars

\* two edits, an undo and a third edit: two snapshots are stacked, the
\* defaults below the once-edited rules, and the active rules differ from both
C24_Witness ==
    /\ lastOp = "edit"
    /\ nSteps = 4
    /\ Len(undo) = 2
    /\ objs[undo[1]] = defaultRules
    /\ objs[undo[2]] # defaultRules
    /\ objs[rules] # objs[undo[2]]
    /\ rules # undo[1] /\ rules # undo[2]

====
